---- MODULE Spec2Model ----
(***************************************************************************)
(* A model of radical.utils' supervised Process (src/src/radical/utils/    *)
(* process.py): a parent that forks a child, the socket pair that ties     *)
(* them together, the child's watcher thread, and the start / stop / join  *)
(* protocol.                                                               *)
(*                                                                         *)
(* Text travelling over the lifeline is modelled as a sequence of          *)
(* one-character strings, so that "the first five bytes", "the rest of     *)
(* the message" and "the error text contains ..." are computed, not        *)
(* assumed.  Time is abstract: a timed wait may end either because what    *)
(* it waits for has happened or because its timeout has elapsed.           *)
(***************************************************************************)
EXTENDS Integers, Sequences, FiniteSets, TLC

\* ------------------------------------------------------------- constants

\* _ALIVE_MSG, the record the child sends once its initializers are done
ALIVE_MSG == <<"a","l","i","v","e">>

\* _BUFSIZE, the largest record _rup_msg_send accepts / recv reads at once
BUFSIZE == 1024

\* the line terminator _rup_msg_send appends ('%s\n' % msg)
NL == <<"\n">>

\* the records run() sends besides the alive record and error reports
WorkFinished == <<"w","o","r","k"," ","f","i","n","i","s","h","e","d">>
Terminating == <<"t","e","r","m","i","n","a","t","i","n","g">>

\* pieces of the error texts the code builds
RuntimeErrorCls == <<"R","u","n","t","i","m","e","E","r","r","o","r">>
InitializePfx == <<"i","n","i","t","i","a","l","i","z","e",":"," ">>
FinalizePfx == <<"f","i","n","a","l","i","z","e",":"," ">>
FinalizeMsgPfx == <<"f","i","n","a","l","i","z","e","(",")",":"," ">>
UnexpectedPfx == <<"u","n","e","x","p","e","c","t","e","d"," ","c","h","i","l","d"," ","m","e","s","s","a","g","e"," ","(">>
NoAliveText == <<"n","o"," ","a","l","i","v","e"," ","m","e","s","s","a","g","e"," ","f","r","o","m"," ","c","h","i","l","d">>
StopFailedText == <<"f","a","i","l","e","d"," ","t","o"," ","s","t","o","p"," ","c","h","i","l","d">>

\* ------------------------------------------------------------- bounds

\* the caller of the Process object calls stop() at most this often
MaxStops == 2

\* the count of work() invocations saturates here
MaxWork == 2

\* ------------------------------------------------------------- inputs

\* What a user hook (initialize_*, finalize_*, work) may raise: an error
\* with a short text (the tests' "oops ..."), or one whose text is so long
\* that its repr() exceeds _BUFSIZE.
ErrKinds == {"oops", "long"}

\* the outcome of one hook invocation: it returns, or raises one of the above
HookOutcomes == {"ok"} \cup ErrKinds

\* the parent's hooks raise nothing that is sent over the lifeline, so the
\* length of their error texts plays no role: one kind of error is enough
ParentHookOutcomes == {"ok", "oops"}

\* the outcome of one work() invocation: True, False, or an exception
WorkOutcomes == {"true", "false"} \cup ErrKinds

OopsText == <<"o","o","p","s">>

LongText == [i \in 1..BUFSIZE |-> "x"]

UserText(k) == IF k = "long" THEN LongText ELSE OopsText

\* ------------------------------------------------------------- text

Min(a, b) == IF a < b THEN a ELSE b

HasChar(s, c) == \E i \in 1..Len(s) : s[i] = c

\* t occurs in s as a contiguous substring (Python's `t in s`)
Contains(s, t) ==
    \E i \in 0..(Len(s) - Len(t)) : SubSeq(s, i + 1, i + Len(t)) = t

\* Python 2 repr() of a str: single quotes, unless the text holds a single
\* quote and no double quote
ReprStr(s) ==
    IF HasChar(s, "'") /\ ~HasChar(s, "\"")
    THEN <<"\"">> \o s \o <<"\"">>
    ELSE <<"'">> \o s \o <<"'">>

\* ------------------------------------------------------------- errors

\* An exception value.  tag says which raise statement built it, kind which
\* user error it stems from (or "-"), msg the lifeline bytes it quotes.
NoError == [tag |-> "none", kind |-> "-", msg |-> <<>>]

\* raised by a user hook, e.g. RuntimeError('oops init')
UserError(k) == [tag |-> "user", kind |-> k, msg |-> <<>>]

\* RuntimeError('initialize: %s' % repr(e))
InitializeError(k) == [tag |-> "initialize", kind |-> k, msg |-> <<>>]

\* RuntimeError('finalize: %s' % repr(e))
FinalizeError(k) == [tag |-> "finalize", kind |-> k, msg |-> <<>>]

\* RuntimeError('unexpected child message (%s)' % msg)
UnexpectedError(m) == [tag |-> "unexpected", kind |-> "-", msg |-> m]

\* RuntimeError('no alive message from child')
NoAliveError == [tag |-> "noalive", kind |-> "-", msg |-> <<>>]

\* RuntimeError('failed to stop child')
StopFailedError == [tag |-> "stopfailed", kind |-> "-", msg |-> <<>>]

\* repr() of a RuntimeError with the one argument `text`
ReprRuntimeError(text) ==
    RuntimeErrorCls \o <<"(">> \o ReprStr(text) \o <<",", ")">>

\* str(e): the message of the exception
StrOf(e) ==
    CASE e.tag = "user"       -> UserText(e.kind)
      [] e.tag = "initialize" -> InitializePfx \o ReprRuntimeError(UserText(e.kind))
      [] e.tag = "finalize"   -> FinalizePfx \o ReprRuntimeError(UserText(e.kind))
      [] e.tag = "unexpected" -> UnexpectedPfx \o e.msg \o <<")">>
      [] e.tag = "noalive"    -> NoAliveText
      [] e.tag = "stopfailed" -> StopFailedText
      [] OTHER                -> <<>>

\* The exceptions that stem from a user hook.  Their texts do not depend on
\* the state, so str() and repr() of them are tabulated once.
HookErrors ==
    {UserError(k) : k \in ErrKinds} \cup {InitializeError(k) : k \in ErrKinds}
        \cup {FinalizeError(k) : k \in ErrKinds}

StrTable == [e \in HookErrors |-> StrOf(e)]

ReprTable == [e \in HookErrors |-> ReprRuntimeError(StrOf(e))]

Str(e) == IF e \in HookErrors THEN StrTable[e] ELSE StrOf(e)

\* repr(e): every exception of the model is a RuntimeError
Repr(e) == IF e \in HookErrors THEN ReprTable[e] ELSE ReprRuntimeError(StrOf(e))

\* ------------------------------------------------------------- state

VARIABLES
    pstate,     \* the parent OS process: "alive" | "dead"
    ppc,        \* where the parent's main thread is
    prole,      \* the parent's _rup_is_parent: "none" | "parent"
    pwatcher,   \* the parent's _rup_watcher: "none" | "running" | "done"
    pterm,      \* the parent's _rup_term: "none" | "unset" | "set"
    pfds,       \* the lifeline ends (0, 1) open in the parent process
    pcalls,     \* the user hooks the parent has invoked, in order
    rmsg,       \* start(): the bytes read from the lifeline so far
    recv1,      \* start(): how its first receive ended
    perr,       \* start(): the exception its handler holds while stop() runs
    stopCtx,    \* who called the stop() in progress: "start" | "caller"
    startRes,   \* start(): "none" | "ok" | "raised"
    startErr,   \* the exception start() raised to its caller
    stopRes,    \* the caller's last stop(): "none" | "ok" | "raised"
    stopErr,    \* the exception that stop() raised to the caller
    nStop,      \* stop() calls made by the caller
    killWaited, \* the parent has waited for the child's exit since terminate()
    cstate,     \* the child OS process: "none" | "running" | "dead"
    cpc,        \* where the child's main thread is
    crole,      \* the child's _rup_is_child: "none" | "child"
    cwatcher,   \* the child's _rup_watcher: "none" | "running" | "done"
    cterm,      \* the child's _rup_term: "none" | "unset" | "set"
    cfds,       \* the lifeline ends (0, 1) open in the child process
    ccalls,     \* the user hooks the child has invoked, in order
    cerr,       \* the exception run() has caught and is about to report
    cfin,       \* the exception the child's _rup_finalize raised
    nWork,      \* work() invocations (saturating at MaxWork)
    workRes,    \* what the last work() invocation did, "none" before the first
    exitcode,   \* the child's exit status: {} while it has none, else {status}
    sigterm,    \* terminate() has signalled the child
    aliveSent,  \* the alive record went onto the lifeline
    wend,       \* why the child's watcher ended: "none" | "hangup" | "flag"
    stream      \* the bytes sent by the child and not yet read by the parent

pvars == <<pstate, ppc, prole, pwatcher, pterm, pfds, pcalls, rmsg, recv1,
           perr, stopCtx, startRes, startErr, stopRes, stopErr, nStop,
           killWaited>>

cvars == <<cstate, cpc, crole, cwatcher, cterm, cfds, ccalls, cerr, cfin, nWork,
           workRes, exitcode, sigterm, aliveSent, wend>>

\* the state of one Process object and its child
procvars == <<pvars, cvars, stream>>

\* ------------------------------------------------------------- queue state

\* the Putter and Getter objects connected to one bridge
Putters == {"p1", "p2"}

Getters == {"g1", "g2"}

\* put() calls made in a run
MaxPuts == 2

\* get() and get_nowait() calls made on one Getter
MaxGets == 2

\* the bridge's bulk_size, the most messages it sends in one reply
BulkSize == 2

\* the most elements of a list handed to put()
MaxList == 2

VARIABLES
    puts,       \* the put() calls made so far: who, what, and whether it raised
    pipe,       \* per Putter, the frames pushed and not yet pulled by the bridge
    bthread,    \* the bridge thread: "alive" | "dead"
    buf,        \* _bridge_work's buf
    reqs,       \* the Getters whose request waits on the bridge's REP socket
    rep,        \* per Getter, the reply frames sent to it and not yet received
    bulks,      \* the replies the bridge has sent so far: to whom, and the bulk
    greq,       \* per Getter, its _requested flag
    gpc,        \* per Getter, the call in progress: "idle" | "get" | "nowait"
    got         \* per Getter, how its calls ended so far, in order

qvars == <<puts, pipe, bthread, buf, reqs, rep, bulks, greq, gpc, got>>

\* ------------------------------------------------------------- further state

\* the tasks (threads) that share one Getter object
Tasks == {"t1", "t2"}

\* get() and get_nowait() calls made by the tasks on the shared Getter
MaxCalls == 3

VARIABLES
    tpc,        \* per task, where it is in get() or get_nowait()
    requested,  \* the shared Getter's _requested flag
    lockOwner,  \* who holds the shared Getter's _lock: "none" or a task
    inflight,   \* a request was sent on the REQ socket and its reply not received
    ready,      \* the reply to the request has arrived at the REQ socket
    doubleSend, \* send() was called on the REQ socket while inflight
    nCalls      \* the calls made so far

tvars == <<tpc, requested, lockOwner, inflight, ready, doubleSend, nCalls>>

\* wait() calls made in a run
MaxWaits == 2

VARIABLES
    wpc,        \* the caller of wait(): "idle" | "loop"
    wto,        \* the timeout argument of the call: "none" | "finite"
    wexp,       \* time.time() - start has grown beyond the timeout
    wres,       \* what the last wait() returned: "none" | "true" | "false"
    wfault,     \* a transport or deserialization call raised in the relay loop
    nWait       \* the wait() calls made so far

wvars == <<wpc, wto, wexp, wres, wfault, nWait>>

\* the most invocations of f that fail with EINTR before f does something else
MaxFails == 12

VARIABLES
    upc,        \* _uninterruptible: "idle" | "loop" | "done"
    uf,         \* the callable f: how often it is interrupted, what it does then
    ucnt,       \* _uninterruptible's cnt, the invocations of f made
    ures        \* how _uninterruptible ended

uvars == <<upc, uf, ucnt, ures>>

\* the record lengths tried lie this far below and above _BUFSIZE
SendSpan == 60

VARIABLES
    sendLen,    \* len(msg) of the record handed to _rup_msg_send
    sendRes,    \* how _rup_msg_send ended: "none" | "sent" | "ValueError"
    wire        \* the bytes written to the endpoint

svars == <<sendLen, sendRes, wire>>

xvars == <<tvars, wvars, uvars, svars>>

vars == <<pvars, cvars, stream, qvars, xvars>>

\* Getter.__init__ of the shared Getter: no request sent, the lock free
TasksInit ==
    /\ tpc = [t \in Tasks |-> "idle"]
    /\ requested = FALSE
    /\ lockOwner = "none"
    /\ inflight = FALSE /\ ready = FALSE /\ doubleSend = FALSE
    /\ nCalls = 0

\* no wait() call made yet
WaitInit ==
    /\ wpc = "idle" /\ wto = "none" /\ wexp = FALSE /\ wres = "none"
    /\ wfault = FALSE /\ nWait = 0

\* the value None, returned by a callable or by _uninterruptible
NoResult == [how |-> "none", val |-> "none"]

\* _uninterruptible not called yet
UninterruptibleInit ==
    /\ upc = "idle" /\ ucnt = 0 /\ ures = NoResult
    /\ uf = [fails |-> 0, last |-> NoResult]

\* _rup_msg_send not called yet
SendInit == sendLen = 0 /\ sendRes = "none" /\ wire = <<>>


\* Queue.__init__, Putter.__init__ and Getter.__init__: sockets bound and
\* connected, the bridge thread started with an empty buffer, no request sent
QueueInit ==
    /\ puts = <<>>
    /\ pipe = [p \in Putters |-> <<>>]
    /\ bthread = "alive"
    /\ buf = <<>>
    /\ reqs = {}
    /\ rep = [g \in Getters |-> <<>>]
    /\ bulks = <<>>
    /\ greq = [g \in Getters |-> FALSE]
    /\ gpc = [g \in Getters |-> "idle"]
    /\ got = [g \in Getters |-> <<>>]

\* Process.__init__: the socket pair exists, both ends open in the creating
\* process; roles, endpoint, terminate flag and watcher are None
Init ==
    /\ pstate = "alive" /\ ppc = "created" /\ prole = "none"
    /\ pwatcher = "none" /\ pterm = "none" /\ pfds = {0, 1}
    /\ pcalls = <<>> /\ rmsg = <<>> /\ recv1 = "none"
    /\ perr = NoError /\ stopCtx = "none"
    /\ startRes = "none" /\ startErr = NoError
    /\ stopRes = "none" /\ stopErr = NoError /\ nStop = 0
    /\ killWaited = FALSE
    /\ cstate = "none" /\ cpc = "none" /\ crole = "none"
    /\ cwatcher = "none" /\ cterm = "none" /\ cfds = {}
    /\ ccalls = <<>> /\ cerr = NoError /\ cfin = NoError /\ nWork = 0 /\ workRes = "none"
    /\ exitcode = {} /\ sigterm = FALSE
    /\ aliveSent = FALSE /\ wend = "none"
    /\ stream = <<>>
    /\ QueueInit
    /\ TasksInit /\ WaitInit /\ UninterruptibleInit /\ SendInit

\* ------------------------------------------------------------- helpers

\* is_alive(): the child OS process exists and has not exited
IsAlive == cstate = "running"

\* a send that also refuses a record of exactly _BUFSIZE bytes
MsgTooLarge_AtLimit(msg) == Len(msg) >= BUFSIZE

\* _rup_msg_send refuses a record longer than _BUFSIZE (it raises ValueError)
MsgTooLarge(msg) == Len(msg) > BUFSIZE

\* The child's endpoint (end 1) can carry a record: it is still open in the
\* child, and the peer end (0) is still open in the parent.  Otherwise
\* send() raises, which _rup_msg_send logs and swallows.
ChildCanSend == 1 \in cfds /\ 0 \in pfds

\* the lifeline after _rup_msg_send(msg) in the child: '%s\n' % msg appended
Sent(msg) == IF ChildCanSend THEN stream \o msg \o NL ELSE stream

\* How a receive on the parent's endpoint ends: bytes are there; or none are
\* and every copy of the child's end is closed (end of stream); or none are
\* and the socket's timeout elapses.
RecvHow ==
    IF stream # <<>> THEN "data"
    ELSE IF 1 \notin cfds THEN "eof" ELSE "timeout"

\* _rup_msg_recv's except clause: every exception of recv(), socket.timeout
\* included, is logged and '' is returned; none reaches the caller
MsgRecvRaises(how) == FALSE

\* _rup_msg_recv(size): up to `size` bytes from the head of the lifeline
MsgRecv(size) == SubSeq(stream, 1, Min(size, Len(stream)))

\* the lifeline after _rup_msg_recv(size)
AfterRecv(size) == SubSeq(stream, Min(size, Len(stream)) + 1, Len(stream))

\* a test that takes any bytes at all for the alive record
IsAliveMsg_AnyBytes(msg) == msg # <<>>

\* a test that also takes the empty result of a timed-out receive for the
\* alive record
IsAliveMsg_OrEmpty(msg) == msg = ALIVE_MSG \/ msg = <<>>

\* start()'s test of the first bytes received
IsAliveMsg(msg) == msg = ALIVE_MSG

\* two user hooks called in the opposite order
HookCalls_Swapped(h1, h2, r1) == IF r1 = "ok" THEN <<h2, h1>> ELSE <<h1>>

\* two user hooks called in a row: the second is not reached if the first raises
HookCalls(h1, h2, r1) == IF r1 = "ok" THEN <<h1, h2>> ELSE <<h1>>

HookError(r1, r2) == IF r1 # "ok" THEN r1 ELSE r2

\* _rup_initialize for a side with the given role: whether the watcher is
\* started (_rup_initialize_child is called, _rup_initialize_parent is only
\* named), the hooks invoked, and the error raised
RupInitialize(role, r1, r2) ==
    [ watcher |-> (role = "child"),
      calls   |-> CASE role = "parent" ->
                         HookCalls("initialize_common", "initialize_parent", r1)
                    [] role = "child" ->
                         HookCalls("initialize_common", "initialize_child", r1)
                    [] OTHER -> <<>>,
      err     |-> IF role = "none" \/ HookError(r1, r2) = "ok"
                  THEN NoError
                  ELSE InitializeError(HookError(r1, r2)) ]

\* _rup_finalize for a side with the given role: the hooks invoked and the
\* error raised
RupFinalize(role, r1, r2) ==
    [ calls |-> CASE role = "parent" ->
                       HookCalls("finalize_parent", "finalize_common", r1)
                  [] role = "child" ->
                       HookCalls("finalize_child", "finalize_common", r1)
                  [] OTHER -> <<>>,
      err   |-> IF role = "none" \/ HookError(r1, r2) = "ok"
                THEN NoError
                ELSE FinalizeError(HookError(r1, r2)) ]

\* ------------------------------------------------------------- parent

\* a start() that keeps the child's lifeline end open in the parent
Start_KeepsBothEnds ==
    /\ pstate = "alive" /\ ppc = "created"
    /\ cstate' = "running" /\ cpc' = "run" /\ cfds' = pfds
    /\ prole' = "parent" /\ pfds' = pfds
    /\ ppc' = "recv_alive"
    /\ UNCHANGED <<pstate, pwatcher, pterm, pcalls, rmsg, recv1, perr, stopCtx,
                   startRes, startErr, stopRes, stopErr, nStop, killWaited>>
    /\ UNCHANGED <<crole, cwatcher, cterm, ccalls, cerr, nWork, workRes,
                   exitcode, sigterm, aliveSent, wend, stream,
                   cfin>>

\* start(), up to the wait for the alive record: fork, take the parent role,
\* keep end 0 as endpoint and close end 1
Start ==
    /\ pstate = "alive" /\ ppc = "created"
    /\ cstate' = "running" /\ cpc' = "run" /\ cfds' = pfds
    /\ prole' = "parent" /\ pfds' = pfds \ {1}
    /\ ppc' = "recv_alive"
    /\ UNCHANGED <<pstate, pwatcher, pterm, pcalls, rmsg, recv1, perr, stopCtx,
                   startRes, startErr, stopRes, stopErr, nStop, killWaited>>
    /\ UNCHANGED <<crole, cwatcher, cterm, ccalls, cerr, nWork, workRes,
                   exitcode, sigterm, aliveSent, wend, stream,
                   cfin>>

\* start(): msg = _rup_msg_recv(len(_ALIVE_MSG)) under the start timeout,
\* and the test msg != 'alive'
StartRecvAlive ==
    /\ pstate = "alive" /\ ppc = "recv_alive"
    /\ recv1' = RecvHow
    /\ IF MsgRecvRaises(RecvHow)
       THEN \* except socket.timeout: raise RuntimeError('no alive message ..')
            \* which the outer handler catches to call stop()
            /\ perr' = NoAliveError
            /\ ppc' = "stop_fin" /\ stopCtx' = "start"
            /\ UNCHANGED <<rmsg, stream>>
       ELSE /\ rmsg' = MsgRecv(Len(ALIVE_MSG))
            /\ stream' = AfterRecv(Len(ALIVE_MSG))
            /\ ppc' = IF IsAliveMsg(MsgRecv(Len(ALIVE_MSG)))
                      THEN "p_init" ELSE "recv_rest"
            /\ UNCHANGED <<perr, stopCtx>>
    /\ UNCHANGED <<pstate, prole, pwatcher, pterm, pfds, pcalls,
                   startRes, startErr, stopRes, stopErr, nStop, killWaited>>
    /\ UNCHANGED cvars

\* start(): msg += _rup_msg_recv(); raise RuntimeError('unexpected child
\* message (%s)' % msg); the outer handler catches it and calls stop()
StartRecvRest ==
    /\ pstate = "alive" /\ ppc = "recv_rest"
    /\ IF MsgRecvRaises(RecvHow)
       THEN /\ perr' = NoAliveError
            /\ UNCHANGED <<rmsg, stream>>
       ELSE /\ rmsg' = rmsg \o MsgRecv(BUFSIZE)
            /\ stream' = AfterRecv(BUFSIZE)
            /\ perr' = UnexpectedError(rmsg \o MsgRecv(BUFSIZE))
    /\ ppc' = "stop_fin" /\ stopCtx' = "start"
    /\ UNCHANGED <<pstate, prole, pwatcher, pterm, pfds, pcalls, recv1,
                   startRes, startErr, stopRes, stopErr, nStop, killWaited>>
    /\ UNCHANGED cvars

\* start(): the alive record is in: self._rup_initialize(), then return; if
\* it raises, the handler calls stop()
ParentInit ==
    /\ pstate = "alive" /\ ppc = "p_init"
    /\ \E r1 \in ParentHookOutcomes :
       \E r2 \in IF r1 = "ok" THEN ParentHookOutcomes ELSE {"ok"} :
         LET i == RupInitialize(prole, r1, r2) IN
         /\ pcalls' = pcalls \o i.calls
         /\ pwatcher' = IF i.watcher THEN "running" ELSE pwatcher
         /\ pterm' = IF i.watcher THEN "unset" ELSE pterm
         /\ IF i.err = NoError
            THEN /\ startRes' = "ok" /\ ppc' = "idle"
                 /\ UNCHANGED <<perr, stopCtx>>
            ELSE /\ perr' = i.err
                 /\ ppc' = "stop_fin" /\ stopCtx' = "start"
                 /\ UNCHANGED startRes
    /\ UNCHANGED <<pstate, prole, pfds, rmsg, recv1, startErr, stopRes,
                   stopErr, nStop, killWaited>>
    /\ UNCHANGED <<cvars, stream>>

\* stop() ends: it returns (e = NoError) or raises e.  Called by start()'s
\* handler (self.stop(); raise), a return re-raises the startup error the
\* handler holds, and a raise replaces it.
StopEnds(e) ==
    /\ ppc' = "idle" /\ stopCtx' = "none" /\ perr' = NoError
    /\ IF stopCtx = "start"
       THEN /\ startRes' = "raised"
            /\ startErr' = IF e = NoError THEN perr ELSE e
            /\ UNCHANGED <<stopRes, stopErr>>
       ELSE /\ stopRes' = IF e = NoError THEN "ok" ELSE "raised"
            /\ stopErr' = e
            /\ UNCHANGED <<startRes, startErr>>

\* the owner of the Process object calls stop() after start() has ended
CallStop ==
    /\ pstate = "alive" /\ ppc = "idle" /\ startRes # "none"
    /\ prole = "parent"
    /\ nStop < MaxStops
    /\ nStop' = nStop + 1
    /\ ppc' = "stop_fin" /\ stopCtx' = "caller"
    /\ stopRes' = "none" /\ stopErr' = NoError
    /\ UNCHANGED <<pstate, prole, pwatcher, pterm, pfds, pcalls, rmsg, recv1,
                   perr, startRes, startErr, killWaited>>
    /\ UNCHANGED <<cvars, stream>>

\* stop(): self._rup_finalize(), then the watcher tear-down, which sets the
\* terminate flag only if there is a watcher
StopFinalize ==
    /\ pstate = "alive" /\ ppc = "stop_fin"
    /\ \E r1 \in ParentHookOutcomes :
       \E r2 \in IF r1 = "ok" THEN ParentHookOutcomes ELSE {"ok"} :
         LET f == RupFinalize(prole, r1, r2) IN
         /\ pcalls' = pcalls \o f.calls
         /\ IF f.err # NoError
            THEN /\ StopEnds(f.err)
                 /\ UNCHANGED pterm
            ELSE /\ ppc' = "stop_join"
                 /\ pterm' = IF pwatcher # "none" THEN "set" ELSE pterm
                 /\ UNCHANGED <<perr, stopCtx, startRes, startErr, stopRes,
                                stopErr>>
    /\ UNCHANGED <<pstate, prole, pwatcher, pfds, rmsg, recv1, nStop, killWaited>>
    /\ UNCHANGED <<cvars, stream>>

\* stop(): mp.Process.join(self, timeout) returns, the child gone or the
\* timeout elapsed
StopJoin ==
    /\ pstate = "alive" /\ ppc = "stop_join"
    /\ ppc' = "stop_check1"
    /\ killWaited' = sigterm
    /\ UNCHANGED <<pstate, prole, pwatcher, pterm, pfds, pcalls, rmsg, recv1,
                   perr, stopCtx, startRes, startErr, stopRes, stopErr, nStop>>
    /\ UNCHANGED <<cvars, stream>>

\* stop(): if is_alive(): self.terminate()
StopCheck1 ==
    /\ pstate = "alive" /\ ppc = "stop_check1"
    /\ IF IsAlive
       THEN /\ sigterm' = TRUE
            /\ killWaited' = FALSE
            /\ ppc' = "stop_check2"
            /\ UNCHANGED <<perr, stopCtx, startRes, startErr, stopRes, stopErr>>
       ELSE /\ StopEnds(NoError)
            /\ UNCHANGED <<sigterm, killWaited>>
    /\ UNCHANGED <<pstate, prole, pwatcher, pterm, pfds, pcalls, rmsg, recv1,
                   nStop>>
    /\ UNCHANGED <<cstate, cpc, crole, cwatcher, cterm, cfds, ccalls, cerr,
                   nWork, workRes, exitcode, aliveSent, wend, stream,
                   cfin>>

\* stop(): if is_alive(): raise RuntimeError('failed to stop child')
StopCheck2 ==
    /\ pstate = "alive" /\ ppc = "stop_check2"
    /\ StopEnds(IF IsAlive THEN StopFailedError ELSE NoError)
    /\ UNCHANGED <<pstate, prole, pwatcher, pterm, pfds, pcalls, rmsg, recv1,
                   nStop, killWaited>>
    /\ UNCHANGED <<cvars, stream>>

\* the owner of the Process object calls join() after start() has ended
CallJoin ==
    /\ pstate = "alive" /\ ppc = "idle" /\ startRes # "none"
    /\ ppc' = "join"
    /\ UNCHANGED <<pstate, prole, pwatcher, pterm, pfds, pcalls, rmsg, recv1,
                   perr, stopCtx, startRes, startErr, stopRes, stopErr, nStop, killWaited>>
    /\ UNCHANGED <<cvars, stream>>

\* join(): mp.Process.join(self) returns; it was given no timeout, so only
\* the child's exit ends it
JoinReturn ==
    /\ pstate = "alive" /\ ppc = "join"
    /\ ~IsAlive
    /\ ppc' = "idle"
    /\ UNCHANGED <<pstate, prole, pwatcher, pterm, pfds, pcalls, rmsg, recv1,
                   perr, stopCtx, startRes, startErr, stopRes, stopErr, nStop, killWaited>>
    /\ UNCHANGED <<cvars, stream>>

\* The parent OS process dies (it is killed, or it exits): the system closes
\* every descriptor it holds, and the Process object, which lived in its
\* memory, is gone with it.
ParentDies ==
    /\ pstate = "alive" /\ ppc # "created"
    /\ pstate' = "dead" /\ pfds' = {}
    /\ ppc' = "gone" /\ prole' = "none" /\ pwatcher' = "none" /\ pterm' = "none"
    /\ pcalls' = <<>> /\ rmsg' = <<>> /\ recv1' = "none"
    /\ perr' = NoError /\ stopCtx' = "none"
    /\ startRes' = "none" /\ startErr' = NoError
    /\ stopRes' = "none" /\ stopErr' = NoError /\ nStop' = 0
    /\ killWaited' = FALSE
    /\ UNCHANGED <<cvars, stream>>

\* ------------------------------------------------------------- child

\* The child OS process ends with the given status: the system closes its
\* descriptors, and its threads end with it.
ChildProcessEnds(code) ==
    /\ cstate' = "dead" /\ cpc' = "gone" /\ exitcode' = {code}
    /\ cfds' = {}
    /\ cwatcher' = IF cwatcher = "running" THEN "gone" ELSE cwatcher

\* run(), up to the alive record: take the child role, keep end 1 as
\* endpoint and close end 0, then self._rup_initialize(), which starts the
\* watcher and calls the user's initializers
ChildInit ==
    /\ cstate = "running" /\ cpc = "run"
    /\ crole' = "child" /\ cfds' = cfds \ {0}
    /\ \E r1 \in HookOutcomes :
       \E r2 \in IF r1 = "ok" THEN HookOutcomes ELSE {"ok"} :
         LET i == RupInitialize("child", r1, r2) IN
         /\ ccalls' = ccalls \o i.calls
         /\ cwatcher' = IF i.watcher THEN "running" ELSE cwatcher
         /\ cterm' = IF i.watcher THEN "unset" ELSE cterm
         /\ cerr' = i.err
         /\ cpc' = IF i.err = NoError THEN "send_alive" ELSE "report"
    /\ UNCHANGED <<cstate, nWork, workRes, exitcode, sigterm, aliveSent, wend,
                   cfin>>
    /\ UNCHANGED <<pvars, stream>>

\* run(): self._rup_msg_send(_ALIVE_MSG)
ChildSendAlive ==
    /\ cstate = "running" /\ cpc = "send_alive"
    /\ stream' = Sent(ALIVE_MSG)
    /\ aliveSent' = ChildCanSend
    /\ cpc' = "loop"
    /\ UNCHANGED <<cstate, crole, cwatcher, cterm, cfds, ccalls, cerr, nWork,
                   workRes, exitcode, sigterm, wend,
                   cfin>>
    /\ UNCHANGED pvars

\* a probe that may fail although the parent lives
ParentProbe_Unreliable == {TRUE, FALSE}

\* _parent_is_alive(): os.kill(ppid, 0).  It succeeds while the parent
\* lives; once the parent is dead it succeeds or fails, as the pid may still
\* name a zombie or another process.
ParentProbe == IF pstate = "alive" THEN {TRUE} ELSE {TRUE, FALSE}

\* a loop test that looks at the parent only, not at the terminate flag
ChildLoopCheck_IgnoresFlag ==
    /\ cstate = "running" /\ cpc = "loop"
    /\ \E probe \in ParentProbe :
         cpc' = IF probe THEN "work" ELSE "finalize"
    /\ UNCHANGED <<cstate, crole, cwatcher, cterm, cfds, ccalls, cerr, nWork,
                   workRes, exitcode, sigterm, aliveSent, wend,
                   cfin>>
    /\ UNCHANGED <<pvars, stream>>

\* run(): the loop test, not self._rup_term.is_set() and
\* self._parent_is_alive()
ChildLoopCheck ==
    /\ cstate = "running" /\ cpc = "loop"
    /\ \E probe \in ParentProbe :
         cpc' = IF cterm # "set" /\ probe THEN "work" ELSE "finalize"
    /\ UNCHANGED <<cstate, crole, cwatcher, cterm, cfds, ccalls, cerr, nWork,
                   workRes, exitcode, sigterm, aliveSent, wend,
                   cfin>>
    /\ UNCHANGED <<pvars, stream>>

\* run(): one call of work(); on False 'work finished' is sent and the loop
\* left, an exception goes to run()'s handler
ChildWork ==
    /\ cstate = "running" /\ cpc = "work"
    /\ nWork' = Min(nWork + 1, MaxWork)
    /\ \E r \in WorkOutcomes :
         /\ workRes' = r
         /\ CASE r = "true"  -> /\ cpc' = "loop"
                                /\ UNCHANGED <<cerr, stream>>
              [] r = "false" -> /\ cpc' = "finalize"
                                /\ stream' = Sent(WorkFinished)
                                /\ UNCHANGED cerr
              [] OTHER       -> /\ cpc' = "report"
                                /\ cerr' = UserError(r)
                                /\ UNCHANGED stream
    /\ UNCHANGED <<cstate, crole, cwatcher, cterm, cfds, ccalls, exitcode,
                   sigterm, aliveSent, wend,
                   cfin>>
    /\ UNCHANGED pvars

\* run(): except BaseException as e: self._rup_msg_send(repr(e)).  A record
\* longer than _BUFSIZE makes _rup_msg_send raise inside the handler: the
\* error leaves run() and the process ends with status 1.
ChildReport ==
    /\ cstate = "running" /\ cpc = "report"
    /\ IF MsgTooLarge(Repr(cerr))
       THEN /\ ChildProcessEnds(1)
            /\ UNCHANGED stream
       ELSE /\ stream' = Sent(Repr(cerr))
            /\ cpc' = "finalize"
            /\ UNCHANGED <<cstate, exitcode, cfds, cwatcher>>
    /\ UNCHANGED <<crole, cterm, ccalls, cerr, nWork, workRes, sigterm,
                   aliveSent, wend,
                   cfin>>
    /\ UNCHANGED pvars

\* run(): self._rup_finalize(); its error is sent as 'finalize(): %s' %
\* repr(e), again from inside a handler
ChildFinalize ==
    /\ cstate = "running" /\ cpc = "finalize"
    /\ \E r1 \in HookOutcomes :
       \E r2 \in IF r1 = "ok" THEN HookOutcomes ELSE {"ok"} :
         LET f == RupFinalize(crole, r1, r2) IN
         /\ ccalls' = ccalls \o f.calls
         /\ cfin' = f.err
         /\ IF f.err = NoError
            THEN /\ cpc' = "send_term"
                 /\ UNCHANGED <<cstate, exitcode, cfds, cwatcher, stream>>
            ELSE IF MsgTooLarge(FinalizeMsgPfx \o Repr(f.err))
            THEN /\ ChildProcessEnds(1)
                 /\ UNCHANGED stream
            ELSE /\ stream' = Sent(FinalizeMsgPfx \o Repr(f.err))
                 /\ cpc' = "send_term"
                 /\ UNCHANGED <<cstate, exitcode, cfds, cwatcher>>
    /\ UNCHANGED <<crole, cterm, cerr, nWork, workRes, sigterm, aliveSent, wend>>
    /\ UNCHANGED pvars

\* a 'terminating' send whose failure is not caught and ends run()
ChildTerminating_SendRaises ==
    /\ cstate = "running" /\ cpc = "send_term"
    /\ IF ChildCanSend
       THEN /\ stream' = Sent(Terminating)
            /\ cterm' = "set"
            /\ cpc' = "join_watcher"
            /\ UNCHANGED <<cstate, exitcode, cfds, cwatcher>>
       ELSE /\ ChildProcessEnds(1)
            /\ UNCHANGED <<stream, cterm>>
    /\ UNCHANGED <<crole, ccalls, cerr, nWork, workRes,
                   sigterm, aliveSent, wend, cfin>>
    /\ UNCHANGED pvars

\* run(): self._rup_msg_send('terminating'); self._rup_term.set()
ChildTerminating ==
    /\ cstate = "running" /\ cpc = "send_term"
    /\ stream' = Sent(Terminating)
    /\ cterm' = "set"
    /\ cpc' = "join_watcher"
    /\ UNCHANGED <<cstate, crole, cwatcher, cfds, ccalls, cerr, nWork, workRes,
                   exitcode, sigterm, aliveSent, wend,
                   cfin>>
    /\ UNCHANGED pvars

\* run(): self._rup_watcher.join(_STOP_TIMEOUT) returns, the watcher done or
\* the timeout elapsed; then sys.exit(0)
ChildExit ==
    /\ cstate = "running" /\ cpc = "join_watcher"
    /\ ChildProcessEnds(0)
    /\ UNCHANGED <<crole, cterm, ccalls, cerr, nWork, workRes, sigterm,
                   aliveSent, wend,
                   cfin>>
    /\ UNCHANGED <<pvars, stream>>

\* the signal sent by terminate() (SIGTERM, no handler installed) ends the
\* child process
ChildKilled ==
    /\ cstate = "running" /\ sigterm
    /\ ChildProcessEnds(-15)
    /\ UNCHANGED <<crole, cterm, ccalls, cerr, nWork, workRes, sigterm,
                   aliveSent, wend,
                   cfin>>
    /\ UNCHANGED <<pvars, stream>>

\* ------------------------------------------------------------- watcher

\* a watcher that closes its endpoint on its way out, but leaves the
\* terminate flag as it is
WatcherEnds_NoFlag(why) ==
    /\ cfds' = cfds \ {1}
    /\ cterm' = cterm
    /\ cwatcher' = "done"
    /\ wend' = why

\* a watcher that sets the terminate flag on its way out, but leaves its
\* endpoint open
WatcherEnds_KeepsOpen(why) ==
    /\ cfds' = cfds
    /\ cterm' = "set"
    /\ cwatcher' = "done"
    /\ wend' = why

\* the end of _rup_watch, whatever ended its loop: the finally clause closes
\* the endpoint and sets the terminate flag
WatcherEnds(why) ==
    /\ cfds' = cfds \ {1}
    /\ cterm' = "set"
    /\ cwatcher' = "done"
    /\ wend' = why

\* _rup_watch in the child: poll() reports POLLHUP / POLLERR, the peer end
\* being closed everywhere: RuntimeError('endpoint disappeard')
CWatchHangup ==
    /\ cstate = "running" /\ cwatcher = "running"
    /\ 0 \notin pfds /\ 0 \notin cfds
    /\ WatcherEnds("hangup")
    /\ UNCHANGED <<cstate, cpc, crole, ccalls, cerr, nWork, workRes, exitcode,
                   sigterm, aliveSent,
                   cfin>>
    /\ UNCHANGED <<pvars, stream>>

\* _rup_watch in the child: the loop test finds the terminate flag set
CWatchFlag ==
    /\ cstate = "running" /\ cwatcher = "running"
    /\ cterm = "set"
    /\ WatcherEnds("flag")
    /\ UNCHANGED <<cstate, cpc, crole, ccalls, cerr, nWork, workRes, exitcode,
                   sigterm, aliveSent,
                   cfin>>
    /\ UNCHANGED <<pvars, stream>>

\* ------------------------------------------------------------- system

Next ==
    \/ Start /\ UNCHANGED <<qvars, xvars>>
    \/ StartRecvAlive /\ UNCHANGED <<qvars, xvars>>
    \/ StartRecvRest /\ UNCHANGED <<qvars, xvars>>
    \/ ParentInit /\ UNCHANGED <<qvars, xvars>>
    \/ CallStop /\ UNCHANGED <<qvars, xvars>>
    \/ StopFinalize /\ UNCHANGED <<qvars, xvars>>
    \/ StopJoin /\ UNCHANGED <<qvars, xvars>>
    \/ StopCheck1 /\ UNCHANGED <<qvars, xvars>>
    \/ StopCheck2 /\ UNCHANGED <<qvars, xvars>>
    \/ CallJoin /\ UNCHANGED <<qvars, xvars>>
    \/ JoinReturn /\ UNCHANGED <<qvars, xvars>>
    \/ ParentDies /\ UNCHANGED <<qvars, xvars>>
    \/ ChildInit /\ UNCHANGED <<qvars, xvars>>
    \/ ChildSendAlive /\ UNCHANGED <<qvars, xvars>>
    \/ ChildLoopCheck /\ UNCHANGED <<qvars, xvars>>
    \/ ChildWork /\ UNCHANGED <<qvars, xvars>>
    \/ ChildReport /\ UNCHANGED <<qvars, xvars>>
    \/ ChildFinalize /\ UNCHANGED <<qvars, xvars>>
    \/ ChildTerminating /\ UNCHANGED <<qvars, xvars>>
    \/ ChildExit /\ UNCHANGED <<qvars, xvars>>
    \/ ChildKilled /\ UNCHANGED <<qvars, xvars>>
    \/ CWatchHangup /\ UNCHANGED <<qvars, xvars>>
    \/ CWatchFlag /\ UNCHANGED <<qvars, xvars>>

Spec == Init /\ [][Next]_vars

\* The steps of the child's main thread, of its watcher thread and of the
\* parent's main thread inside start(), stop() and join().  Each thread is
\* scheduled again and again, hooks return, and a timed wait ends; when the
\* object's owner calls stop() or join(), and whether the parent dies, is
\* left open.
ChildStep ==
    /\ \/ ChildInit \/ ChildSendAlive \/ ChildLoopCheck \/ ChildWork
       \/ ChildReport \/ ChildFinalize \/ ChildTerminating \/ ChildExit
    /\ UNCHANGED <<qvars, xvars>>

WatcherStep == (CWatchHangup \/ CWatchFlag) /\ UNCHANGED <<qvars, xvars>>

\* the delivery of the signal sent by terminate()
SignalStep == ChildKilled /\ UNCHANGED <<qvars, xvars>>

ParentStep ==
    /\ \/ StartRecvAlive \/ StartRecvRest \/ ParentInit \/ StopFinalize
       \/ StopJoin \/ StopCheck1 \/ StopCheck2 \/ JoinReturn
    /\ UNCHANGED <<qvars, xvars>>

FairSpec ==
    /\ Spec
    /\ WF_vars(ChildStep)
    /\ WF_vars(WatcherStep)
    /\ WF_vars(SignalStep)
    /\ WF_vars(ParentStep)

\* ------------------------------------------------------------- queue data

\* What log_bulk distinguishes in a message: a number (or None, a bool), on
\* which `'arg' in` raises TypeError; and a string or a dict that carries
\* neither 'arg' nor 'uid', which is logged
Kinds == {"num", "str"}

\* the i-th message of the k-th put() call, made by Putter p
MsgOf(p, k, i, kind) == [p |-> p, k |-> k, i |-> i, kind |-> kind]

\* the argument of a put() call: one message, or a list of messages
OnePayloads(p, k) ==
    {[form |-> "one", ms |-> <<MsgOf(p, k, 1, c)>>] : c \in Kinds}

ListPayloads(p, k) ==
    UNION {{[form |-> "list", ms |-> [i \in 1..n |-> MsgOf(p, k, i, cs[i])]] :
               cs \in [1..n -> Kinds]} : n \in 0..MaxList}

Payloads(p, k) == OnePayloads(p, k) \cup ListPayloads(p, k)

\* the value None
NoneValue == [form |-> "none", ms |-> <<>>]

\* the value of a Python list with the given elements
ListValue(ms) == [form |-> "list", ms |-> ms]

\* msgpack.packb: a list becomes an array on the wire, of its elements
Pack(v) == [array |-> v.form = "list", ms |-> v.ms]

\* msgpack.unpackb: an array comes back as a list
Unpack(d) == [form |-> IF d.array THEN "list" ELSE "one", ms |-> d.ms]

\* log_bulk(log, bulk, token) raises: a non-list is wrapped into a one-element
\* list, an empty list returns at once, then `'arg' in bulk[0]` raises
\* TypeError on None and on a number
LogBulkRaises(v) ==
    \/ v.form = "none"
    \/ v.ms # <<>> /\ v.ms[1].kind = "num"

\* a relay that sends all it has buffered
Take_All(s, n) == s

\* buf[:n]
Take(s, n) == SubSeq(s, 1, Min(n, Len(s)))

\* a relay that sends a bulk and keeps it buffered
Drop_Nothing(s, n) == s

\* a relay that deletes one message more than it has sent
Drop_OneMore(s, n) == SubSeq(s, Min(n + 1, Len(s)) + 1, Len(s))

\* buf after del(buf[:n])
Drop(s, n) == SubSeq(s, Min(n, Len(s)) + 1, Len(s))

\* ------------------------------------------------------------- queue actions

\* a Putter that pushes every frame twice
Put_Twice(p, v) ==
    /\ Len(puts) < MaxPuts
    /\ puts' = Append(puts, [p |-> p, v |-> v, ok |-> ~LogBulkRaises(v)])
    /\ pipe' = IF LogBulkRaises(v) THEN pipe
               ELSE [pipe EXCEPT ![p] = Append(Append(@, Pack(v)), Pack(v))]
    /\ UNCHANGED <<bthread, buf, reqs, rep, bulks, greq, gpc, got>>

\* Putter.put(msg): log_bulk, then the packed message is pushed
Put(p, v) ==
    /\ Len(puts) < MaxPuts
    /\ puts' = Append(puts, [p |-> p, v |-> v, ok |-> ~LogBulkRaises(v)])
    /\ pipe' = IF LogBulkRaises(v) THEN pipe
               ELSE [pipe EXCEPT ![p] = Append(@, Pack(v))]
    /\ UNCHANGED <<bthread, buf, reqs, rep, bulks, greq, gpc, got>>

\* a relay that puts new messages in front of its buffer
BridgeRecv_InFront(p) ==
    /\ bthread = "alive"
    /\ pipe[p] # <<>>
    /\ pipe' = [pipe EXCEPT ![p] = Tail(@)]
    /\ buf' = Unpack(Head(pipe[p])).ms \o buf
    /\ UNCHANGED <<puts, bthread, reqs, rep, bulks, greq, gpc, got>>

\* _bridge_work, the input half of an iteration that finds a frame of
\* Putter p: a list extends buf, anything else is appended
BridgeRecv(p) ==
    /\ bthread = "alive"
    /\ pipe[p] # <<>>
    /\ pipe' = [pipe EXCEPT ![p] = Tail(@)]
    /\ buf' = buf \o Unpack(Head(pipe[p])).ms
    /\ UNCHANGED <<puts, bthread, reqs, rep, bulks, greq, gpc, got>>

\* a relay that answers a request whether or not it has messages buffered
BridgeReply_EmptyToo(g) ==
    /\ bthread = "alive"
    /\ g \in reqs
    /\ reqs' = reqs \ {g}
    /\ rep' = [rep EXCEPT ![g] = Append(@, Pack(ListValue(Take(buf, BulkSize))))]
    /\ bulks' = Append(bulks, [g |-> g, bulk |-> Take(buf, BulkSize)])
    /\ buf' = Drop(buf, BulkSize)
    /\ bthread' = IF LogBulkRaises(ListValue(Take(buf, BulkSize)))
                  THEN "dead" ELSE "alive"
    /\ UNCHANGED <<puts, pipe, greq, gpc, got>>

\* a relay that replies with full bulks only
BridgeReply_FullBulksOnly(g) ==
    /\ Len(buf) >= BulkSize
    /\ bthread = "alive"
    /\ g \in reqs
    /\ reqs' = reqs \ {g}
    /\ rep' = [rep EXCEPT ![g] = Append(@, Pack(ListValue(Take(buf, BulkSize))))]
    /\ bulks' = Append(bulks, [g |-> g, bulk |-> Take(buf, BulkSize)])
    /\ buf' = Drop(buf, BulkSize)
    /\ bthread' = IF LogBulkRaises(ListValue(Take(buf, BulkSize)))
                  THEN "dead" ELSE "alive"
    /\ UNCHANGED <<puts, pipe, greq, gpc, got>>

\* _bridge_work, the output half of an iteration with a non-empty buf that
\* finds the request of Getter g: the first bulk_size messages are sent and
\* deleted from buf; then log_bulk, whose exception ends the thread
BridgeReply(g) ==
    /\ bthread = "alive"
    /\ buf # <<>>
    /\ g \in reqs
    /\ reqs' = reqs \ {g}
    /\ rep' = [rep EXCEPT ![g] = Append(@, Pack(ListValue(Take(buf, BulkSize))))]
    /\ bulks' = Append(bulks, [g |-> g, bulk |-> Take(buf, BulkSize)])
    /\ buf' = Drop(buf, BulkSize)
    /\ bthread' = IF LogBulkRaises(ListValue(Take(buf, BulkSize)))
                  THEN "dead" ELSE "alive"
    /\ UNCHANGED <<puts, pipe, greq, gpc, got>>

\* the request part of get() and get_nowait(): sent only if none is in flight
SendRequest(g) ==
    /\ reqs' = IF greq[g] THEN reqs ELSE reqs \cup {g}
    /\ greq' = [greq EXCEPT ![g] = TRUE]

\* the receive part of get() and get_nowait(): _requested is cleared, then
\* log_bulk may raise instead of the bulk being returned
RecvReply(g) ==
    /\ rep[g] # <<>>
    /\ rep' = [rep EXCEPT ![g] = Tail(@)]
    /\ greq' = [greq EXCEPT ![g] = FALSE]
    /\ got' = [got EXCEPT ![g] = Append(@,
                 [res |-> IF LogBulkRaises(Unpack(Head(rep[g])))
                          THEN "raise" ELSE "value",
                  v   |-> Unpack(Head(rep[g]))])]
    /\ gpc' = [gpc EXCEPT ![g] = "idle"]

\* Getter.get(), up to the blocking receive
GetCall(g) ==
    /\ gpc[g] = "idle" /\ Len(got[g]) < MaxGets
    /\ SendRequest(g)
    /\ gpc' = [gpc EXCEPT ![g] = "get"]
    /\ UNCHANGED <<puts, pipe, bthread, buf, rep, bulks, got>>

\* Getter.get(): the reply is there
GetReturn(g) ==
    /\ gpc[g] = "get"
    /\ RecvReply(g)
    /\ UNCHANGED <<puts, pipe, bthread, buf, reqs, bulks>>

\* Getter.get_nowait(timeout), up to the poll
GetNowaitCall(g) ==
    /\ gpc[g] = "idle" /\ Len(got[g]) < MaxGets
    /\ SendRequest(g)
    /\ gpc' = [gpc EXCEPT ![g] = "nowait"]
    /\ UNCHANGED <<puts, pipe, bthread, buf, rep, bulks, got>>

\* Getter.get_nowait(timeout): the poll finds the reply
GetNowaitRecv(g) ==
    /\ gpc[g] = "nowait"
    /\ RecvReply(g)
    /\ UNCHANGED <<puts, pipe, bthread, buf, reqs, bulks>>

\* Getter.get_nowait(timeout): the poll times out; log_bulk(self._log, None,
\* ..) comes before `return None`
GetNowaitTimeout(g) ==
    /\ gpc[g] = "nowait"
    /\ got' = [got EXCEPT ![g] = Append(@,
                 [res |-> IF LogBulkRaises(NoneValue) THEN "raise" ELSE "none",
                  v   |-> NoneValue])]
    /\ gpc' = [gpc EXCEPT ![g] = "idle"]
    /\ UNCHANGED <<puts, pipe, bthread, buf, reqs, rep, bulks, greq>>

QueueNext ==
    \/ (\E p \in Putters : \E v \in Payloads(p, Len(puts) + 1) : Put(p, v))
          /\ UNCHANGED <<procvars, xvars>>
    \/ (\E p \in Putters : BridgeRecv(p)) /\ UNCHANGED <<procvars, xvars>>
    \/ (\E g \in Getters : BridgeReply(g)) /\ UNCHANGED <<procvars, xvars>>
    \/ (\E g \in Getters : GetCall(g)) /\ UNCHANGED <<procvars, xvars>>
    \/ (\E g \in Getters : GetReturn(g)) /\ UNCHANGED <<procvars, xvars>>
    \/ (\E g \in Getters : GetNowaitCall(g)) /\ UNCHANGED <<procvars, xvars>>
    \/ (\E g \in Getters : GetNowaitRecv(g)) /\ UNCHANGED <<procvars, xvars>>
    \/ (\E g \in Getters : GetNowaitTimeout(g)) /\ UNCHANGED <<procvars, xvars>>

QueueSpec == Init /\ [][QueueNext]_vars

\* The bridge thread keeps iterating, frames sent arrive, and a Getter
\* blocked in get() is scheduled when its reply is there.
BridgeStep ==
    /\ \/ \E p \in Putters : BridgeRecv(p)
       \/ \E g \in Getters : BridgeReply(g)
    /\ UNCHANGED <<procvars, xvars>>

GetterStep == (\E g \in Getters : GetReturn(g)) /\ UNCHANGED <<procvars, xvars>>

QueueFairSpec ==
    /\ QueueSpec
    /\ WF_vars(BridgeStep)
    /\ WF_vars(GetterStep)

\* ------------------------------------------------------------- one Getter, two tasks

\* `if not self._requested:` at the head of get(), which takes no lock
TaskGetCheck(t) ==
    /\ tpc[t] = "idle" /\ nCalls < MaxCalls
    /\ nCalls' = nCalls + 1
    /\ tpc' = [tpc EXCEPT ![t] = IF requested THEN "get_recv" ELSE "get_send"]
    /\ UNCHANGED <<requested, lockOwner, inflight, ready, doubleSend>>

\* get(): _uninterruptible(self._q.send, req)
TaskGetSend(t) ==
    /\ tpc[t] = "get_send"
    /\ doubleSend' = (doubleSend \/ inflight)
    /\ inflight' = TRUE
    /\ tpc' = [tpc EXCEPT ![t] = "get_set"]
    /\ UNCHANGED <<requested, lockOwner, ready, nCalls>>

\* get(): self._requested = True
TaskGetSet(t) ==
    /\ tpc[t] = "get_set"
    /\ requested' = TRUE
    /\ tpc' = [tpc EXCEPT ![t] = "get_recv"]
    /\ UNCHANGED <<lockOwner, inflight, ready, doubleSend, nCalls>>

\* get(): the blocking recv returns; self._requested = False
TaskGetRecv(t) ==
    /\ tpc[t] = "get_recv"
    /\ ready
    /\ ready' = FALSE /\ inflight' = FALSE
    /\ requested' = FALSE
    /\ tpc' = [tpc EXCEPT ![t] = "idle"]
    /\ UNCHANGED <<lockOwner, doubleSend, nCalls>>

\* get_nowait(): `with self._lock:` is entered, then `if not self._requested:`
TaskNowaitCheck(t) ==
    /\ tpc[t] = "idle" /\ nCalls < MaxCalls
    /\ lockOwner = "none"
    /\ nCalls' = nCalls + 1
    /\ lockOwner' = t
    /\ tpc' = [tpc EXCEPT ![t] = IF requested THEN "nw_poll" ELSE "nw_send"]
    /\ UNCHANGED <<requested, inflight, ready, doubleSend>>

\* get_nowait(): _uninterruptible(self._q.send, req), the lock held
TaskNowaitSend(t) ==
    /\ tpc[t] = "nw_send"
    /\ doubleSend' = (doubleSend \/ inflight)
    /\ inflight' = TRUE
    /\ tpc' = [tpc EXCEPT ![t] = "nw_set"]
    /\ UNCHANGED <<requested, lockOwner, ready, nCalls>>

\* get_nowait(): self._requested = True, the lock held
TaskNowaitSet(t) ==
    /\ tpc[t] = "nw_set"
    /\ requested' = TRUE
    /\ tpc' = [tpc EXCEPT ![t] = "nw_poll"]
    /\ UNCHANGED <<lockOwner, inflight, ready, doubleSend, nCalls>>

\* get_nowait(): the poll finds the reply, which is received;
\* self._requested = False; the lock is released on the way out
TaskNowaitRecv(t) ==
    /\ tpc[t] = "nw_poll"
    /\ ready
    /\ ready' = FALSE /\ inflight' = FALSE
    /\ requested' = FALSE
    /\ lockOwner' = "none"
    /\ tpc' = [tpc EXCEPT ![t] = "idle"]
    /\ UNCHANGED <<doubleSend, nCalls>>

\* get_nowait(): the poll times out; the lock is released on the way out
TaskNowaitTimeout(t) ==
    /\ tpc[t] = "nw_poll"
    /\ ~ready
    /\ lockOwner' = "none"
    /\ tpc' = [tpc EXCEPT ![t] = "idle"]
    /\ UNCHANGED <<requested, inflight, ready, doubleSend, nCalls>>

\* the bridge answers the request that is in flight
TaskReplyArrives ==
    /\ inflight /\ ~ready
    /\ ready' = TRUE
    /\ UNCHANGED <<tpc, requested, lockOwner, inflight, doubleSend, nCalls>>

GetterTasksNext ==
    \/ (\E t \in Tasks : TaskGetCheck(t))
          /\ UNCHANGED <<procvars, qvars, wvars, uvars, svars>>
    \/ (\E t \in Tasks : TaskGetSend(t))
          /\ UNCHANGED <<procvars, qvars, wvars, uvars, svars>>
    \/ (\E t \in Tasks : TaskGetSet(t))
          /\ UNCHANGED <<procvars, qvars, wvars, uvars, svars>>
    \/ (\E t \in Tasks : TaskGetRecv(t))
          /\ UNCHANGED <<procvars, qvars, wvars, uvars, svars>>
    \/ (\E t \in Tasks : TaskNowaitCheck(t))
          /\ UNCHANGED <<procvars, qvars, wvars, uvars, svars>>
    \/ (\E t \in Tasks : TaskNowaitSend(t))
          /\ UNCHANGED <<procvars, qvars, wvars, uvars, svars>>
    \/ (\E t \in Tasks : TaskNowaitSet(t))
          /\ UNCHANGED <<procvars, qvars, wvars, uvars, svars>>
    \/ (\E t \in Tasks : TaskNowaitRecv(t))
          /\ UNCHANGED <<procvars, qvars, wvars, uvars, svars>>
    \/ (\E t \in Tasks : TaskNowaitTimeout(t))
          /\ UNCHANGED <<procvars, qvars, wvars, uvars, svars>>
    \/ TaskReplyArrives /\ UNCHANGED <<procvars, qvars, wvars, uvars, svars>>

GetterTasksSpec == Init /\ [][GetterTasksNext]_vars

\* ------------------------------------------------------------- wait()

\* _bridge_work: a poll, recv, send or unpackb of the loop raises; the
\* `except Exception` around the loop logs 'bridge failed' and the thread's
\* function returns
BridgeFault ==
    /\ bthread = "alive"
    /\ ~wfault
    /\ wfault' = TRUE
    /\ bthread' = "dead"
    /\ UNCHANGED <<wpc, wto, wexp, wres, nWait>>
    /\ UNCHANGED <<puts, pipe, buf, reqs, rep, bulks, greq, gpc, got>>

\* wait(timeout) is called: start = time.time()
WaitCall(to) ==
    /\ wpc = "idle" /\ nWait < MaxWaits
    /\ nWait' = nWait + 1
    /\ wpc' = "loop" /\ wto' = to /\ wexp' = FALSE /\ wres' = "none"
    /\ UNCHANGED wfault
    /\ UNCHANGED qvars

\* a wait() that tests the timeout before it looks at the thread
WaitTest_TimeoutFirst ==
    /\ wpc = "loop"
    /\ (bthread = "dead" \/ (wto = "finite" /\ wexp))
    /\ wres' = IF wto = "finite" /\ wexp THEN "false" ELSE "true"
    /\ wpc' = "idle"
    /\ UNCHANGED <<wto, wexp, wfault, nWait>>
    /\ UNCHANGED qvars

\* wait(): one pass of the loop that returns: True if the bridge thread is
\* not alive; otherwise False if a timeout was given and has passed
WaitTest ==
    /\ wpc = "loop"
    /\ (bthread = "dead" \/ (wto = "finite" /\ wexp))
    /\ wres' = IF bthread = "dead" THEN "true" ELSE "false"
    /\ wpc' = "idle"
    /\ UNCHANGED <<wto, wexp, wfault, nWait>>
    /\ UNCHANGED qvars

\* wait(): time.sleep(0.1) in a pass that does not return; the time passed
\* since start comes to exceed the timeout
WaitSleep ==
    /\ wpc = "loop" /\ bthread = "alive"
    /\ wto = "finite" /\ ~wexp
    /\ wexp' = TRUE
    /\ UNCHANGED <<wpc, wto, wres, wfault, nWait>>
    /\ UNCHANGED qvars

BridgeWaitNext ==
    \/ (\E p \in Putters : \E v \in Payloads(p, Len(puts) + 1) : Put(p, v))
          /\ UNCHANGED <<procvars, xvars>>
    \/ (\E p \in Putters : BridgeRecv(p)) /\ UNCHANGED <<procvars, xvars>>
    \/ (\E g \in Getters : BridgeReply(g)) /\ UNCHANGED <<procvars, xvars>>
    \/ (\E g \in Getters : GetCall(g)) /\ UNCHANGED <<procvars, xvars>>
    \/ BridgeFault /\ UNCHANGED <<procvars, tvars, uvars, svars>>
    \/ (\E to \in {"none", "finite"} : WaitCall(to))
          /\ UNCHANGED <<procvars, tvars, uvars, svars>>
    \/ WaitTest /\ UNCHANGED <<procvars, tvars, uvars, svars>>
    \/ WaitSleep /\ UNCHANGED <<procvars, tvars, uvars, svars>>

BridgeWaitSpec == Init /\ [][BridgeWaitNext]_vars

\* ------------------------------------------------------------- _uninterruptible

\* `if cnt > 10: raise`
RetryLimit == 10

\* what one invocation of f does: it returns a value, or raises
\* zmq.ContextTerminated, or raises a zmq.ZMQError with some errno
Values == {"v1", "v2", "v3"}

\* errno values of a ZMQError other than errno.EINTR
OtherErrnos == {"EAGAIN", "EFSM"}

Returns(v) == [how |-> "return", val |-> v]

Raises(e) == [how |-> "raise", val |-> e]

ContextTerminated == Raises("ContextTerminated")

\* a ZMQError with errno.EINTR
Interrupted == Raises("EINTR")

Outcomes ==
    {Returns(v) : v \in Values} \cup {ContextTerminated}
        \cup {Raises(e) : e \in OtherErrnos}

\* the n-th invocation of the callable f: interrupted f.fails times, then
\* f.last each time
Invoke(f, n) == IF n <= f.fails THEN Interrupted ELSE f.last

\* a wrapper that gives up on the interrupt that makes cnt reach the limit
GivesUp_AtLimit(cnt) == cnt >= RetryLimit

\* `if cnt > 10: raise`
GivesUp(cnt) == cnt > RetryLimit

\* _uninterruptible(f) is called: cnt = 0
UCall(f) ==
    /\ upc = "idle"
    /\ uf' = f /\ ucnt' = 0 /\ upc' = "loop"
    /\ UNCHANGED ures

\* one pass of `while True`: cnt += 1, f is invoked; its value is returned,
\* ContextTerminated gives None, EINTR is retried unless cnt > 10, any other
\* ZMQError is raised again
UPass ==
    /\ upc = "loop"
    /\ ucnt' = ucnt + 1
    /\ LET r == Invoke(uf, ucnt + 1) IN
       IF r.how = "return"
       THEN ures' = r /\ upc' = "done"
       ELSE IF r = ContextTerminated
       THEN ures' = NoResult /\ upc' = "done"
       ELSE IF r = Interrupted /\ ~GivesUp(ucnt + 1)
       THEN ures' = ures /\ upc' = "loop"
       ELSE ures' = r /\ upc' = "done"
    /\ UNCHANGED uf

UninterruptibleNext ==
    \/ (\E n \in 0..MaxFails : \E o \in Outcomes :
            UCall([fails |-> n, last |-> o]))
          /\ UNCHANGED <<procvars, qvars, tvars, wvars, svars>>
    \/ UPass /\ UNCHANGED <<procvars, qvars, tvars, wvars, svars>>

UninterruptibleSpec == Init /\ [][UninterruptibleNext]_vars

\* ------------------------------------------------------------- _rup_msg_send

\* a record of n bytes
RecordOf(n) == [i \in 1..n |-> "x"]

\* the record lengths handed to _rup_msg_send
SendLens == (BUFSIZE - SendSpan)..(BUFSIZE + SendSpan)

\* _rup_msg_send(msg) on an open, connected endpoint: ValueError if the
\* record is too large, else '%s\n' % msg is sent
MsgSend(n) ==
    /\ sendRes = "none"
    /\ sendLen' = n
    /\ IF MsgTooLarge(RecordOf(n))
       THEN sendRes' = "ValueError" /\ wire' = wire
       ELSE sendRes' = "sent" /\ wire' = wire \o RecordOf(n) \o NL

SendNext ==
    (\E n \in SendLens : MsgSend(n))
        /\ UNCHANGED <<procvars, qvars, tvars, wvars, uvars>>

SendSpec == Init /\ [][SendNext]_vars

\* ------------------------------------------------------------- properties

\* the hook h has been invoked in the child
ChildCalled(h) == \E i \in 1..Len(ccalls) : ccalls[i] = h

\* the child's initialize_common and initialize_child have both returned
ChildInitDone ==
    /\ Len(ccalls) >= 2
    /\ SubSeq(ccalls, 1, 2) = <<"initialize_common", "initialize_child">>
    /\ cerr.tag # "initialize"

\* the step in which start() returns normally to its caller
StartReturnsOk == startRes # "ok" /\ startRes' = "ok"

\* C1: start() returns normally only if the child has sent the alive record,
\* and the alive record is sent only after the child's initialize_common and
\* initialize_child have completed without error.
C1_StartOkOnlyAfterAlive ==
    /\ startRes = "ok" => aliveSent
    /\ aliveSent => ChildInitDone

C1_Witness == startRes = "ok" /\ aliveSent /\ ChildInitDone

\* C2: when the child's initializer raised and the parent has read the
\* child's report from the lifeline, start() raises an error whose message
\* contains the text of the child's error, and does not return normally.
C2_InitErrorReachesCaller ==
    (cerr.tag = "initialize" /\ ChildCalled("initialize_child")
        /\ recv1 = "data" /\ startRes # "none")
        => /\ startRes = "raised"
           /\ Contains(Str(startErr), UserText(cerr.kind))

\* C3: whenever start() has raised to its caller, the child process is not
\* alive.
C3_NoChildAfterFailedStart == startRes = "raised" => ~IsAlive

\* C4: if the first receive of start() ended by timeout (the child sent
\* nothing in time), the startup failure that start() raises, and hands to
\* its handler, is 'no alive message from child'.
C4_TimeoutIsNoAlive ==
    recv1 = "timeout" =>
        /\ stopCtx = "start" => perr = NoAliveError
        /\ startRes = "raised" => startErr = NoAliveError

C6_StopLeavesNoChild ==
    startRes = "ok" =>
        /\ stopRes = "ok" => ~IsAlive
        /\ (stopRes = "raised" /\ IsAlive) => stopErr = StopFailedError

\* C7: once the owner has called stop() on a started child whose work() has
\* only ever returned True, a child that is gone has gone gracefully: its
\* watcher saw the hangup, finalize_child and finalize_common have run, and
\* it exited with status 0.
C7_StopIsGraceful ==
    (startRes = "ok" /\ nStop >= 1 /\ workRes \in {"none", "true"}
                     /\ cstate = "dead")
        => /\ wend = "hangup"
           /\ ChildCalled("finalize_child") /\ ChildCalled("finalize_common")
           /\ exitcode = {0}

\* C8: when the parent process is dead while the child runs, the child
\* process eventually ends; and when that happens while the child is in its
\* main loop, unsignalled, with a work() that does not raise, finalize_child
\* has been called by then.
C8_ChildFollowsParent ==
    /\ (pstate = "dead" /\ cstate = "running") ~> (cstate = "dead")
    /\ (pstate = "dead" /\ cstate = "running" /\ cpc \in {"loop", "work"}
           /\ ~sigterm)
         ~> (cstate = "dead"
               /\ (ChildCalled("finalize_child") \/ workRes \in ErrKinds))

C8_Witness ==
    /\ pstate = "dead" /\ cstate = "dead" /\ exitcode = {0}
    /\ wend = "hangup" /\ workRes = "true"
    /\ ChildCalled("finalize_child")

\* C9: stop() raises 'failed to stop child' only after it has waited for
\* the child's exit once more since the hard termination.
C9_WaitsAfterTerminate ==
    /\ stopErr = StopFailedError => killWaited
    /\ startErr = StopFailedError => killWaited

\* C10: a join(timeout) called after a successful start() returns, also when
\* the child never exits.
C10_JoinReturns == (startRes = "ok" /\ ppc = "join") ~> (ppc # "join")

\* the outcomes of work() that end the main loop: False, or an exception
WorkStops == {"false"} \cup ErrKinds

\* C11: once work() has returned False or raised, work() is not invoked
\* again (so a first work() that returns False makes exactly one iteration);
\* the child, unless it is signalled, then reaches its finalizers and exits;
\* and a parent blocked in join() then returns.
C11_WorkStopsForGood ==
    /\ [][(workRes \in WorkStops) => (cpc' # "work" /\ nWork' = nWork)]_vars
    /\ (cstate = "running" /\ workRes \in WorkStops /\ ~sigterm)
         ~> (cstate = "dead" /\ (ChildCalled("finalize_child") \/ sigterm))
    /\ (ppc = "join" /\ workRes \in WorkStops) ~> (ppc # "join")

\* C12: a child that has left the start-up and main-loop phase on its own
\* (it is past _rup_finalize, or has exited without being signalled) has
\* invoked finalize_child and then finalize_common.
C12_FinalizersAlwaysRun ==
    (\/ cpc \in {"send_term", "join_watcher"}
     \/ (cstate = "dead" /\ exitcode # {-15}))
        => \E i \in 1..Len(ccalls) : \E j \in (i+1)..Len(ccalls) :
              ccalls[i] = "finalize_child" /\ ccalls[j] = "finalize_common"

\* C13: a child that exits on its own exits with a non-zero status if one of
\* its initializers failed, and with status 0 if no initializer, work() call
\* or finalizer failed.
C13_ExitStatus ==
    (cstate = "dead" /\ exitcode # {-15})
        => /\ cerr.tag = "initialize" => exitcode # {0}
           /\ (cerr = NoError /\ cfin = NoError) => exitcode = {0}

\* the number of invocations of the hook h in the parent
ParentCallCount(h) == Cardinality({i \in 1..Len(pcalls) : pcalls[i] = h})

\* C14: finalize_parent and finalize_common each run at most once in the
\* parent, whatever the sequence of start() and stop() calls.
C14_ParentFinalizesOnce ==
    /\ ParentCallCount("finalize_parent") <= 1
    /\ ParentCallCount("finalize_common") <= 1

\* ------------------------------------------------------------- queue properties

\* the concatenation of the elements of a sequence of sequences
RECURSIVE Concat(_)
Concat(ss) == IF ss = <<>> THEN <<>> ELSE Head(ss) \o Concat(Tail(ss))

\* all messages the bridge has sent so far, in the order sent
SentOut == Concat([i \in 1..Len(bulks) |-> bulks[i].bulk])

\* the messages Getter g has received so far, in the order received
Received(g) == Concat([i \in 1..Len(got[g]) |-> got[g][i].v.ms])

\* message a was handed to its Putter before message b
Before(a, b) == a.k < b.k \/ (a.k = b.k /\ a.i < b.i)

\* in s, the messages of each Putter stand in the order they were put
InPutOrder(s) ==
    \A a \in 1..Len(s) : \A b \in (a+1)..Len(s) :
        s[a].p = s[b].p => Before(s[a], s[b])

NoRepeats(s) == \A a \in 1..Len(s) : \A b \in (a+1)..Len(s) : s[a] # s[b]

\* C15: no message is sent by the bridge twice: the bulks sent so far, and
\* what is still buffered, hold every message at most once.
C15_NoMessageTwice == NoRepeats(SentOut \o buf)

C15_Witness ==
    /\ Len(bulks) >= 2 /\ bulks[1].g # bulks[2].g
    /\ Len(SentOut) >= 3

\* C16: the messages of each single Putter pass through the bridge's buffer
\* in the order put, and reach each single Getter in that order.
C16_PutterOrderKept ==
    /\ InPutOrder(SentOut \o buf)
    /\ \A g \in Getters : InPutOrder(Received(g))

C16_Witness ==
    \E g \in Getters : \E a, b \in 1..Len(got[g]) :
        /\ a < b
        /\ \E x \in 1..Len(got[g][a].v.ms) : \E y \in 1..Len(got[g][b].v.ms) :
              got[g][a].v.ms[x].p = got[g][b].v.ms[y].p
        /\ \E x, y \in 1..Len(got[g][a].v.ms) :
              got[g][a].v.ms[x].p # got[g][a].v.ms[y].p

\* C17: every reply of the bridge holds at least one message, and while buf
\* is empty no request is taken from the output socket and none is answered.
C17_RepliesOnlyWithData ==
    /\ [](\A i \in 1..Len(bulks) : bulks[i].bulk # <<>>)
    /\ [][(buf = <<>>) => (reqs \subseteq reqs' /\ bulks' = bulks)]_vars

C17_Witness == reqs # {} /\ buf = <<>> /\ bulks # <<>> /\ bthread = "alive"

\* no Getter other than g has a request waiting or can make another call
OthersDone(g) ==
    \A h \in Getters \ {g} :
        h \notin reqs /\ gpc[h] = "idle" /\ Len(got[h]) = MaxGets

\* C18: while the bridge thread is alive, a waiting request and a buffered
\* message do not persist together: replies go out until no request waits
\* or nothing is buffered; and a Getter blocked in get(), the only one still
\* asking, returns from get() once a message is buffered.
C18_RequestAnswered ==
    /\ (bthread = "alive" /\ reqs # {} /\ buf # <<>>)
          ~> (reqs = {} \/ buf = <<>> \/ bthread = "dead")
    /\ \A g \in Getters :
         (bthread = "alive" /\ gpc[g] = "get" /\ buf # <<>> /\ OthersDone(g))
            ~> (gpc[g] = "idle")

C18_Witness ==
    \E g \in Getters :
        /\ puts # <<>> /\ bulks # <<>> /\ bulks[Len(bulks)].g = g
        /\ gpc[g] = "idle" /\ got[g] # <<>> /\ got[g][Len(got[g])].res = "value"
        /\ OthersDone(g)

\* C19: a reply is the first min(bulk_size, len(buf)) messages of buf, in
\* order, and the reply leaves buf without exactly that prefix.
C19_ReplyIsPrefix ==
    [][(bulks' # bulks) =>
         LET k == IF Len(buf) < BulkSize THEN Len(buf) ELSE BulkSize IN
         /\ Len(bulks') = Len(bulks) + 1
         /\ bulks'[Len(bulks')].bulk = SubSeq(buf, 1, k)
         /\ buf = SubSeq(buf, 1, k) \o buf'
         /\ Len(buf') = Len(buf) - k
         /\ Len(bulks'[Len(bulks')].bulk) <= BulkSize]_vars

C19_Witness ==
    /\ bulks # <<>> /\ Len(bulks[Len(bulks)].bulk) = BulkSize /\ buf # <<>>

\* C20: when a single put(M) has been made, put(M) did not raise and what
\* the next get() returns equals M.
C20_RoundTrip ==
    Len(puts) = 1
        => /\ puts[1].ok
           /\ \A g \in Getters : \A i \in 1..Len(got[g]) :
                 got[g][i].v # NoneValue
                     => got[g][i].res = "value" /\ got[g][i].v = puts[1].v

\* a divided by b, rounded up
CeilDiv(a, b) == (a + b - 1) \div b

\* the messages of the put() calls that did not raise, in the order put
Accepted ==
    Concat([i \in 1..Len(puts) |-> IF puts[i].ok THEN puts[i].v.ms ELSE <<>>])

\* every put() so far was made by Putter p with a single message, and only
\* Getter g has asked for messages, with get()
OnePutterOneGetter(p, g) ==
    /\ puts # <<>>
    /\ \A i \in 1..Len(puts) : puts[i].p = p /\ puts[i].v.form = "one"
    /\ \A h \in Getters \ {g} : got[h] = <<>> /\ gpc[h] = "idle" /\ ~greq[h]
    /\ gpc[g] # "nowait"
    /\ \A i \in 1..Len(got[g]) : got[g][i].v # NoneValue

C22_NowaitReturnsNone ==
    \A g \in Getters : \A i \in 1..Len(got[g]) :
        /\ got[g][i].v = NoneValue => got[g][i].res = "none"
        /\ got[g][i].v # NoneValue
              => \E j \in 1..Len(bulks) :
                    bulks[j].g = g /\ ListValue(bulks[j].bulk) = got[g][i].v

\* task t has tested _requested, found it unset, and has not yet set it
InGetSection(t) == tpc[t] \in {"get_send", "get_set"}

InNowaitSection(t) == tpc[t] \in {"nw_send", "nw_set"}

\* C23: no request is sent on the REQ socket while one is in flight, and
\* the test-send-set sections of a get() and of a get_nowait() running in
\* two tasks on one Getter never overlap.
C23_OneRequestInFlight ==
    /\ ~doubleSend
    /\ \A t, u \in Tasks : ~(InGetSection(t) /\ InNowaitSection(u))

\* C24: wait() returns True exactly when it finds the bridge thread not
\* alive, and False only after a given timeout has passed with the thread
\* alive; a thread that is not alive stays so, an exception in the relay
\* loop leaves it not alive, so that every wait() that returns after an
\* exception returns True.
C24_WaitTellsRelayState ==
    /\ [][(wpc = "loop" /\ wpc' = "idle") =>
            /\ (wres' = "true") <=> (bthread = "dead")
            /\ (wres' = "false") <=> (bthread = "alive" /\ wto = "finite" /\ wexp)
         ]_vars
    /\ [][(bthread = "dead") => (bthread' = "dead")]_vars
    /\ [](wfault => bthread = "dead")

C24_Witness ==
    /\ wfault /\ nWait = MaxWaits /\ wpc = "idle" /\ wres = "true"
    /\ wto = "finite" /\ wexp

\* C25: _uninterruptible invokes f again only after an interrupt and at
\* most 10 times, 11 invocations in all; it ends at the first invocation
\* that is not an interrupt: with f's value, with None on context
\* termination, with f's error otherwise; an 11th interrupt in a row is
\* raised to the caller.
C25_RetriesInterruptsOnly ==
    /\ ucnt <= 11
    /\ (upc = "loop") => (ucnt <= 10 /\ ucnt <= uf.fails)
    /\ (upc = "done") =>
         IF uf.fails >= 11
         THEN ucnt = 11 /\ ures = Interrupted
         ELSE /\ ucnt = uf.fails + 1
              /\ ures = IF uf.last = ContextTerminated THEN NoResult
                        ELSE uf.last

C25_Witness ==
    /\ upc = "done" /\ uf.fails = 10 /\ ucnt = 11
    /\ ures = Returns("v1")

\* C26: _rup_msg_send passes a record of up to 1024 bytes to the socket,
\* followed by a newline, and refuses a record of 1025 bytes or more with
\* ValueError, nothing being written.
C26_SendSizeLimit ==
    (sendRes # "none") =>
        /\ (sendLen <= 1024) =>
              (sendRes = "sent" /\ wire = RecordOf(sendLen) \o NL)
        /\ (sendLen >= 1025) => (sendRes = "ValueError" /\ wire = <<>>)

C26_Witness == sendLen = 1024 /\ sendRes = "sent" /\ Len(wire) = 1025

\* C28: bytes are written to and read from the lifeline only by the watcher
\* threads: no step of a main thread (the parent's in start(), the child's
\* in run()) adds bytes to the lifeline or takes bytes from it.
C28_OnlyWatcherUsesLifeline ==
    [][(stream' # stream) => (cpc' = cpc /\ ppc' = ppc)]_vars

\* C29: from a successful return of start() until stop() is called or the
\* parent dies, the parent has a running watcher and an unset terminate
\* flag; and so has the child while it is in its main loop.
C29_WatchersAndFlags ==
    (startRes = "ok" /\ nStop = 0 /\ pstate = "alive")
        => /\ pwatcher = "running" /\ pterm = "unset"
           /\ (cstate = "running" /\ cpc \in {"loop", "work"})
                 => (cwatcher = "running" /\ cterm = "unset")

\* C30 as stated: when the parent waits on the lifeline for the alive
\* record, it has already run its initializers.
C30_InitBeforeAlive ==
    (ppc = "recv_alive") => (pcalls # <<>> /\ pcalls[1] = "initialize_common")

\* C30: while the parent waits for the alive record it has run no hook and
\* has spawned no watcher; its initializers run only once 'alive' has been
\* received, initialize_common first and initialize_parent right after it.
C30_InitAfterAlive ==
    /\ (ppc \in {"recv_alive", "recv_rest"})
          => (pcalls = <<>> /\ pwatcher = "none")
    /\ \A i \in 1..Len(pcalls) :
          /\ (pcalls[i] = "initialize_common")
                => (i = 1 /\ recv1 = "data" /\ rmsg = ALIVE_MSG)
          /\ (pcalls[i] = "initialize_parent")
                => (i = 2 /\ pcalls[1] = "initialize_common")

C30_Witness ==
    /\ startRes = "ok" /\ rmsg = ALIVE_MSG
    /\ pcalls = <<"initialize_common", "initialize_parent">>

\* C31: a watcher thread that has run to its end has closed its endpoint
\* and left the terminate flag set, whether a hangup (raised and caught as an
\* exception inside the watcher) or the flag ended its loop; and a terminate
\* flag that is set is never unset again.
C31_WatcherEndsClosedAndFlagged ==
    /\ [](cwatcher = "done" => (1 \notin cfds /\ cterm = "set"))
    /\ [](pwatcher = "done" => (0 \notin pfds /\ pterm = "set"))
    /\ [][(wend' # wend) =>
            (cwatcher' = "done" /\ 1 \notin cfds' /\ cterm' = "set")]_vars
    /\ [][(cterm = "set") => (cterm' = "set")]_vars
    /\ [][(pterm = "set") => (pterm' = "set")]_vars

C31_Witness ==
    /\ cstate = "running" /\ cwatcher = "done" /\ wend = "hangup"
    /\ cterm = "set" /\ 1 \notin cfds

\* C32: after a successful start(), as long as stop() has not been called,
\* the parent lives and the child is in its main loop, the parent holds
\* exactly its own lifeline end (0) and the child exactly its own (1).
C32_OneEndPerSide ==
    (/\ startRes = "ok" /\ nStop = 0 /\ pstate = "alive"
     /\ cstate = "running" /\ cpc \in {"loop", "work"})
        => (pfds = {0} /\ cfds = {1})

C32_Witness ==
    /\ startRes = "ok" /\ nStop = 0 /\ pstate = "alive"
    /\ cstate = "running" /\ cpc = "work" /\ nWork = 1
    /\ pfds = {0} /\ cfds = {1}

\* in the sequence s of hook invocations, every `second` comes right after
\* a `first`
RightAfter(s, first, second) ==
    \A i \in 1..Len(s) : (s[i] = second) => (i > 1 /\ s[i-1] = first)

\* C33: in the parent initialize_parent is invoked right after
\* initialize_common and finalize_common right after finalize_parent; in the
\* child the same with initialize_child and finalize_child; the parent
\* invokes no child hook and the child no parent hook.
C33_HooksMirrored ==
    /\ RightAfter(pcalls, "initialize_common", "initialize_parent")
    /\ RightAfter(pcalls, "finalize_parent", "finalize_common")
    /\ RightAfter(ccalls, "initialize_common", "initialize_child")
    /\ RightAfter(ccalls, "finalize_child", "finalize_common")
    /\ \A i \in 1..Len(pcalls) :
          pcalls[i] \notin {"initialize_child", "finalize_child"}
    /\ \A i \in 1..Len(ccalls) :
          ccalls[i] \notin {"initialize_parent", "finalize_parent"}

C33_Witness ==
    /\ pcalls = <<"initialize_common", "initialize_parent",
                  "finalize_parent", "finalize_common">>
    /\ ccalls = <<"initialize_common", "initialize_child",
                  "finalize_child", "finalize_common">>

\* the child's main thread is about to send a record within the size limit
\* (an error report, or what follows it), and its endpoint cannot carry it
AtFailingSend ==
    /\ cstate = "running" /\ ~ChildCanSend
    /\ \/ cpc = "report" /\ ~MsgTooLarge(Repr(cerr))
       \/ cpc \in {"finalize", "send_term"}

\* C34: a send that fails on the lifeline does not end run(): the child
\* ends with status 1 only when a record was too large, and a child about
\* to send on an unusable endpoint goes on to invoke finalize_child and to
\* exit, unless a signal kills it first.
C34_SendFailureSwallowed ==
    /\ []((cstate = "dead" /\ exitcode = {1})
            => (\/ MsgTooLarge(Repr(cerr))
                \/ MsgTooLarge(FinalizeMsgPfx \o Repr(cfin))))
    /\ AtFailingSend
          ~> (cstate = "dead" /\ (ChildCalled("finalize_child") \/ sigterm))

C34_Witness ==
    /\ cstate = "dead" /\ exitcode = {0} /\ ~aliveSent
    /\ wend = "hangup"
    /\ ChildCalled("initialize_child") /\ ChildCalled("finalize_child")
    /\ workRes = "false"

\* the bulks the bridge has sent to Getter g so far, in order
BulksFor(g) ==
    LET idx == {i \in 1..Len(bulks) : bulks[i].g = g}
        nth[k \in 0..Len(bulks)] ==
            IF k = 0 THEN <<>>
            ELSE IF k \in idx THEN Append(nth[k-1], ListValue(bulks[k].bulk))
            ELSE nth[k-1]
    IN nth[Len(bulks)]

\* what the calls of Getter g that did not time out returned, in order
Returned(g) ==
    LET nth[k \in 0..Len(got[g])] ==
            IF k = 0 THEN <<>>
            ELSE IF got[g][k].res = "value" THEN Append(nth[k-1], got[g][k].v)
            ELSE nth[k-1]
    IN nth[Len(got[g])]

\* _requested is set exactly while a request of this Getter waits at the
\* bridge or its reply waits at the Getter, and at most one does
FlagExact ==
    \A g \in Getters :
        /\ greq[g] <=> (g \in reqs \/ rep[g] # <<>>)
        /\ Len(rep[g]) <= 1
        /\ ~(g \in reqs /\ rep[g] # <<>>)

\* C35: the flag is exact, and the bulks sent to a Getter are those its
\* calls returned, in order, followed by the reply still waiting for it: no
\* replied bulk is lost.
C35_NoRepliedBulkLost ==
    /\ FlagExact
    /\ \A g \in Getters :
          BulksFor(g) =
              Returned(g) \o [i \in 1..Len(rep[g]) |-> Unpack(rep[g][i])]

\* C36: once the child's terminate flag is set, the loop test never again
\* lets the child go on to work(): only a work() call whose loop test had
\* already passed when the flag was set is still made, so at most one call
\* begins after the flag was set.
C36_AtMostOneWorkAfterFlag ==
    /\ [][(cterm = "set" /\ cpc # "work") => (cpc' # "work")]_vars
    /\ [][(cpc = "work" /\ cpc' # "work") =>
             (cpc' \in {"loop", "finalize", "report", "gone"})]_vars

C36_Witness ==
    /\ cstate = "running" /\ cterm = "set" /\ wend = "hangup"
    /\ cpc = "work" /\ nWork >= 1

\* the messages the bridge takes from its input socket in a step: the
\* elements of the frame that leaves a Putter's pipe, if one does
ReceivedNow ==
    IF \E p \in Putters :
           pipe[p] # <<>> /\ pipe' = [pipe EXCEPT ![p] = Tail(@)]
    THEN Unpack(Head(pipe[CHOOSE p \in Putters :
                pipe[p] # <<>> /\ pipe' = [pipe EXCEPT ![p] = Tail(@)]])).ms
    ELSE <<>>

\* C37: the bulks sent so far followed by the buffer are the messages
\* received so far, in the order received: every step extends this sequence
\* by exactly the messages it takes from the input socket, at its end, and
\* changes nothing else in it.
C37_RelayConserves ==
    [][SentOut' \o buf' = (SentOut \o buf) \o ReceivedNow]_vars

C37_Witness ==
    /\ bthread = "alive" /\ bulks # <<>> /\ buf # <<>>
    /\ Len(SentOut \o buf) >= 3
    /\ \A p \in Putters : pipe[p] = <<>>

\* C38: a parent finalizer is invoked only in a parent that has invoked
\* initialize_common and then initialize_parent before.
C38_FinalizeAfterInitialize ==
    \A i \in 1..Len(pcalls) :
        (pcalls[i] \in {"finalize_parent", "finalize_common"})
            => \E j \in 1..(i-1) : \E k \in (j+1)..(i-1) :
                  pcalls[j] = "initialize_common" /\ pcalls[k] = "initialize_parent"

\* C39: a child whose error has a string form beyond the record limit, and
\* that ends without being signalled, has invoked finalize_child and exits
\* with status 0 through the end of run().
C39_OversizeReportHarmless ==
    (/\ cstate = "dead" /\ exitcode # {-15}
     /\ \/ MsgTooLarge(Repr(cerr))
        \/ MsgTooLarge(FinalizeMsgPfx \o Repr(cfin)))
        => (ChildCalled("finalize_child") /\ exitcode = {0})

\* C40: the error a failed start() raises to its caller is a startup failure
\* (no or unexpected alive record, or a raising initializer), never an error
\* of the stop() that its handler called.
C40_StartupErrorKept ==
    startRes = "raised" =>
        /\ startErr.tag \in {"noalive", "unexpected", "initialize"}
        /\ startErr.tag \notin {"finalize", "stopfailed"}

====
